---- MODULE Spec2Model ----
(***************************************************************************)
(* numal core: the NumalError type with its Display rendering              *)
(* (src/core/error.rs) and the Tolerance policy with the is_close          *)
(* comparator (src/core/tolerance.rs).                                     *)
(*                                                                         *)
(* f64 values are modelled as NaN, +Inf, -Inf or a finite decimal          *)
(* m * 10^e kept in normal form (m = 0 => e = 0, otherwise 10 does not     *)
(* divide m).  The arithmetic follows IEEE-754 on the special values       *)
(* (NaN propagates, Inf - Inf = NaN, Inf * 0 = NaN, every comparison with  *)
(* NaN is false), overflows to an infinity above f64::MAX, and lets an     *)
(* operand that is below half an ulp of the other be absorbed by a sum.    *)
(* Finite results inside that range are exact: the values the model draws  *)
(* keep every such result within nine significant digits, and no product   *)
(* of theirs is small enough to underflow.  -0.0 is identified with 0.0,   *)
(* which every operation used by the comparator treats alike.              *)
(***************************************************************************)
EXTENDS Integers, Sequences, FiniteSets, TLC

VARIABLES op, args, out, prev

vars == <<op, args, out, prev>>

(* Largest integer mantissa of the f64 values handed to is_close. *)
MaxVal == 2

(* Largest integer mantissa of the thresholds of a Custom tolerance. *)
MaxEps == 1

-----------------------------------------------------------------------------
(* f64 *)

RECURSIVE Pow10(_)
Pow10(n) == IF n = 0 THEN 1 ELSE 10 * Pow10(n - 1)

Mag(m) == IF m < 0 THEN 0 - m ELSE m

RECURSIVE Digits(_)
Digits(m) == IF m < 10 THEN 1 ELSE 1 + Digits(m \div 10)

NaN == [k |-> "nan", m |-> 0, e |-> 0]

PosInf == [k |-> "inf", m |-> 1, e |-> 0]

NegInf == [k |-> "inf", m |-> -1, e |-> 0]

RECURSIVE Fin(_, _)
Fin(m, e) ==
    IF m = 0 THEN [k |-> "fin", m |-> 0, e |-> 0]
    ELSE IF m % 10 = 0 THEN Fin(m \div 10, e + 1)
    ELSE [k |-> "fin", m |-> m, e |-> e]

IsNaN(x) == x.k = "nan"

IsFinite(x) == x.k = "fin"

Sign(x) == IF x.m < 0 THEN -1 ELSE IF x.m > 0 THEN 1 ELSE 0

(* Decimal exponent of a nonzero finite x: 10^(Top-1) <= |x| < 10^Top. *)
Top(x) == x.e + Digits(Mag(x.m))

(* f64::MAX = 1.7976931348623157e308, by its nine leading digits. *)
F64Max == [lead |-> 179769313, top |-> 309]

(* A sum drops an operand this many decimal orders below the other:        *)
(* 10^-17 of the larger magnitude is under half an ulp (2^-54 of it).      *)
AbsorbGap == 18

(* Rounding of an exact nonzero result m * 10^e: an infinity above f64::MAX. *)
Round(m, e) ==
    LET x == Fin(m, e)
        d == Digits(Mag(x.m))
        over == \/ Top(x) > F64Max.top
                \/ /\ Top(x) = F64Max.top
                   /\ Mag(x.m) * Pow10(Digits(F64Max.lead) - d) > F64Max.lead
    IN  IF x.m # 0 /\ over THEN (IF x.m < 0 THEN NegInf ELSE PosInf) ELSE x

Fneg(x) == IF IsNaN(x) THEN NaN ELSE [x EXCEPT !.m = 0 - x.m]

Fabs(x) == IF IsNaN(x) THEN NaN ELSE [x EXCEPT !.m = Mag(x.m)]

Fadd(x, y) ==
    IF IsNaN(x) \/ IsNaN(y) THEN NaN
    ELSE IF x.k = "inf" /\ y.k = "inf" THEN (IF x.m = y.m THEN x ELSE NaN)
    ELSE IF x.k = "inf" THEN x
    ELSE IF y.k = "inf" THEN y
    ELSE IF x.m = 0 THEN y
    ELSE IF y.m = 0 THEN x
    ELSE IF Top(x) - Top(y) >= AbsorbGap THEN x
    ELSE IF Top(y) - Top(x) >= AbsorbGap THEN y
    ELSE LET lo == IF x.e < y.e THEN x.e ELSE y.e
         IN  Round(x.m * Pow10(x.e - lo) + y.m * Pow10(y.e - lo), lo)

Fsub(x, y) == Fadd(x, Fneg(y))

Fmul(x, y) ==
    IF IsNaN(x) \/ IsNaN(y) THEN NaN
    ELSE IF x.k = "inf" \/ y.k = "inf"
         THEN (IF Sign(x) * Sign(y) = 0 THEN NaN
               ELSE IF Sign(x) * Sign(y) < 0 THEN NegInf ELSE PosInf)
    ELSE Round(x.m * y.m, x.e + y.e)

(* x < y for finite x, y *)
FinLt(x, y) ==
    IF Sign(x) # Sign(y) THEN Sign(x) < Sign(y)
    ELSE IF Sign(x) = 0 THEN FALSE
    ELSE IF Top(x) # Top(y) THEN (IF Sign(x) > 0 THEN Top(x) < Top(y) ELSE Top(x) > Top(y))
    ELSE LET lo == IF x.e < y.e THEN x.e ELSE y.e
         IN  x.m * Pow10(x.e - lo) < y.m * Pow10(y.e - lo)

Flt(x, y) ==
    IF IsNaN(x) \/ IsNaN(y) THEN FALSE
    ELSE IF x.k = "inf" /\ y.k = "inf" THEN x.m < y.m
    ELSE IF x.k = "inf" THEN x.m < 0
    ELSE IF y.k = "inf" THEN y.m > 0
    ELSE FinLt(x, y)

Fle(x, y) == ~IsNaN(x) /\ ~IsNaN(y) /\ (x = y \/ Flt(x, y))

Fgt(x, y) == Flt(y, x)

Fge(x, y) == Fle(y, x)

-----------------------------------------------------------------------------
(* NumalError *)

InvalidInput(msg) == [kind |-> "InvalidInput", msg |-> msg]

DidNotConverge == [kind |-> "DidNotConverge"]

DerivativeNotComputable == [kind |-> "DerivativeNotComputable"]

LibErr(msg) == [kind |-> "LibErr", msg |-> msg]

(* Display with the LibErr arm pasted from the InvalidInput arm. *)
Display_pasted(err) ==
    CASE err.kind = "InvalidInput" -> "INVALID INPUT: " \o err.msg
      [] err.kind = "DidNotConverge" -> "FAILED TO CONVERGE"
      [] err.kind = "DerivativeNotComputable" -> "DERIVATIVE NOT COMPUTABLE"
      [] err.kind = "LibErr" -> "INVALID INPUT: " \o err.msg

Display(err) ==
    CASE err.kind = "InvalidInput" -> "INVALID INPUT: " \o err.msg
      [] err.kind = "DidNotConverge" -> "FAILED TO CONVERGE"
      [] err.kind = "DerivativeNotComputable" -> "DERIVATIVE NOT COMPUTABLE"
      [] err.kind = "LibErr" -> "NUMAL LIB ERROR: " \o err.msg

Ok(v) == [tag |-> "Ok", val |-> v]

Err(e) == [tag |-> "Err", err |-> e]

-----------------------------------------------------------------------------
(* Tolerance *)

Custom(x, y) == [kind |-> "Custom", eps_abs |-> x, eps_rel |-> y]

Strict == [kind |-> "Strict"]

Default == [kind |-> "Default"]

Loose == [kind |-> "Loose"]

(* eps_abs binding the other field of Custom. *)
eps_abs_swapped(tol) ==
    CASE tol.kind = "Custom" -> tol.eps_rel
      [] tol.kind = "Strict" -> Fin(1, -12)
      [] tol.kind = "Default" -> Fin(1, -8)
      [] tol.kind = "Loose" -> Fin(1, -6)

eps_abs(tol) ==
    CASE tol.kind = "Custom" -> tol.eps_abs
      [] tol.kind = "Strict" -> Fin(1, -12)
      [] tol.kind = "Default" -> Fin(1, -8)
      [] tol.kind = "Loose" -> Fin(1, -6)

eps_rel(tol) ==
    CASE tol.kind = "Custom" -> tol.eps_rel
      [] tol.kind = "Strict" -> Fin(1, -10)
      [] tol.kind = "Default" -> Fin(1, -6)
      [] tol.kind = "Loose" -> Fin(1, -4)

(* is_close with the relative term scaled by max(|a|, |b|). *)
is_close_rel_max(a, b, tol) ==
    LET big == IF Fgt(Fabs(a), Fabs(b)) THEN Fabs(a) ELSE Fabs(b)
    IN  IF Fle(Fabs(Fsub(a, b)), Fadd(eps_abs(tol), Fmul(eps_rel(tol), big)))
        THEN Ok(TRUE)
        ELSE Err(DidNotConverge)

(* is_close with the relative term scaled by |a|. *)
is_close_rel_a(a, b, tol) ==
    IF Fle(Fabs(Fsub(a, b)), Fadd(eps_abs(tol), Fmul(eps_rel(tol), Fabs(a))))
    THEN Ok(TRUE)
    ELSE Err(DidNotConverge)

(* is_close with the relative term scaled by b, the abs() dropped. *)
is_close_rel_signed(a, b, tol) ==
    IF Fle(Fabs(Fsub(a, b)), Fadd(eps_abs(tol), Fmul(eps_rel(tol), b)))
    THEN Ok(TRUE)
    ELSE Err(DidNotConverge)

(* is_close with the relative term subtracted from the budget. *)
is_close_minus(a, b, tol) ==
    IF Fle(Fabs(Fsub(a, b)), Fsub(eps_abs(tol), Fmul(eps_rel(tol), Fabs(b))))
    THEN Ok(TRUE)
    ELSE Err(DidNotConverge)

(* is_close with < for <=. *)
is_close_strict(a, b, tol) ==
    IF Flt(Fabs(Fsub(a, b)), Fadd(eps_abs(tol), Fmul(eps_rel(tol), Fabs(b))))
    THEN Ok(TRUE)
    ELSE Err(DidNotConverge)

(* is_close testing !(diff > budget), which NaN passes. *)
is_close_not_gt(a, b, tol) ==
    IF ~Fgt(Fabs(Fsub(a, b)), Fadd(eps_abs(tol), Fmul(eps_rel(tol), Fabs(b))))
    THEN Ok(TRUE)
    ELSE Err(DidNotConverge)

(* is_close as its doc comment words it: Ok(false) when not close. *)
is_close_bool(a, b, tol) ==
    IF Fle(Fabs(Fsub(a, b)), Fadd(eps_abs(tol), Fmul(eps_rel(tol), Fabs(b))))
    THEN Ok(TRUE)
    ELSE Ok(FALSE)

is_close(a, b, tol) ==
    IF Fle(Fabs(Fsub(a, b)), Fadd(eps_abs(tol), Fmul(eps_rel(tol), Fabs(b))))
    THEN Ok(TRUE)
    ELSE Err(DidNotConverge)

-----------------------------------------------------------------------------
(* The inputs the callers draw *)

Ints(n) == {Fin(m, 0) : m \in (0 - n)..n}

(* 1e-8 sits on the Default absolute budget; 1e308 overflows when doubled. *)
Values == Ints(MaxVal) \cup {Fin(1, -8), Fin(1, 308), PosInf, NegInf, NaN}

Thresholds == Ints(MaxEps) \cup {PosInf, NegInf, NaN}

Presets == {Strict, Default, Loose}

Tolerances == Presets \cup {Custom(x, y) : x \in Thresholds, y \in Thresholds}

Messages == {"", "x", "step must be > 0", "FAILED TO CONVERGE"}

Errors ==
    {InvalidInput(m) : m \in Messages} \cup {LibErr(m) : m \in Messages}
        \cup {DidNotConverge, DerivativeNotComputable}

None == [none |-> TRUE]

-----------------------------------------------------------------------------
(* Calls.  Every function of the crate is pure and keeps nothing between   *)
(* calls, so a behaviour follows one call from the idle state: the state   *)
(* is that call (op, args, out) and, when the caller re-checks the pair,   *)
(* the call before it (prev).                                              *)

Init ==
    /\ op = "none"
    /\ args = None
    /\ out = None
    /\ prev = None

CallEpsAbs ==
    /\ op = "none"
    /\ \E t \in Tolerances :
          /\ op' = "eps_abs"
          /\ args' = [tol |-> t]
          /\ out' = eps_abs(t)
          /\ prev' = None

CallEpsRel ==
    /\ op = "none"
    /\ \E t \in Tolerances :
          /\ op' = "eps_rel"
          /\ args' = [tol |-> t]
          /\ out' = eps_rel(t)
          /\ prev' = None

CallIsClose ==
    /\ op = "none"
    /\ \E x \in Values, y \in Values, t \in Tolerances :
          /\ op' = "is_close"
          /\ args' = [a |-> x, b |-> y, tol |-> t]
          /\ out' = is_close(x, y, t)
          /\ prev' = None

(* A caller that holds the outcome of is_close(a, b, tol) calls again. *)
Recheck(how, x, y, t) ==
    /\ op' = "is_close"
    /\ args' = [a |-> x, b |-> y, tol |-> t]
    /\ out' = is_close(x, y, t)
    /\ prev' = [how |-> how, args |-> args, out |-> out]

RecheckSwapped ==
    /\ op = "is_close"
    /\ prev = None
    /\ Recheck("swapped", args.b, args.a, args.tol)

RecheckNegated ==
    /\ op = "is_close"
    /\ prev = None
    /\ Recheck("negated", Fneg(args.a), Fneg(args.b), args.tol)

RetryWith ==
    /\ op = "is_close"
    /\ prev = None
    /\ \E q \in Tolerances : Recheck("retry", args.a, args.b, q)

Fmt ==
    /\ op = "none"
    /\ \E e \in Errors :
          /\ op' = "fmt"
          /\ args' = [err |-> e]
          /\ out' = Display(e)
          /\ prev' = None

Next ==
    \/ CallEpsAbs
    \/ CallEpsRel
    \/ CallIsClose
    \/ RecheckSwapped
    \/ RecheckNegated
    \/ RetryWith
    \/ Fmt

Spec == Init /\ [][Next]_vars

-----------------------------------------------------------------------------
(* Properties *)

Zero == Fin(0, 0)

Diff == Fabs(Fsub(args.a, args.b))

Budget == Fadd(eps_abs(args.tol), Fmul(eps_rel(args.tol), Fabs(args.b)))

IsInt(x) == IsFinite(x) /\ x.e = 0

(* C1: for non-NaN a and b and every policy, is_close returns Ok(true)     *)
(* exactly when |a - b| <= eps_abs + eps_rel * |b|, a difference equal to  *)
(* the budget included, and Err(DidNotConverge) whenever |a - b| exceeds   *)
(* the budget.  On integer arguments and integer thresholds the test is    *)
(* the integer inequality |a - b| <= eps_abs + eps_rel * |b|.              *)
C1_BudgetDecides ==
    (op = "is_close" /\ ~IsNaN(args.a) /\ ~IsNaN(args.b)) =>
        /\ (out = Ok(TRUE)) <=> Fle(Diff, Budget)
        /\ Fgt(Diff, Budget) => out = Err(DidNotConverge)
        /\ (~IsNaN(Diff) /\ Diff = Budget) => out = Ok(TRUE)
        /\ ( /\ IsInt(args.a) /\ IsInt(args.b)
             /\ IsInt(eps_abs(args.tol)) /\ IsInt(eps_rel(args.tol)) ) =>
              ( (out = Ok(TRUE)) <=>
                  Mag(args.a.m - args.b.m)
                      <= eps_abs(args.tol).m + eps_rel(args.tol).m * Mag(args.b.m) )

(* is_close(1e-8, 0.0, Default): the difference equals the budget 1e-8. *)
C1_Witness ==
    /\ op = "is_close"
    /\ args = [a |-> Fin(1, -8), b |-> Zero, tol |-> Default]
    /\ Diff = Budget
    /\ out = Ok(TRUE)

(* C2: is_close returns Ok(true) or Err(DidNotConverge), never Ok(false)   *)
(* and never another error kind.                                           *)
C2_TwoOutcomes ==
    op = "is_close" => out \in {Ok(TRUE), Err(DidNotConverge)}

C2_Witness ==
    /\ op = "is_close"
    /\ prev = None
    /\ args = [a |-> Fin(2, 0), b |-> Zero, tol |-> Loose]
    /\ out = Err(DidNotConverge)

(* C3: is_close returns Ok(true) if |a - b| <= eps_abs + eps_rel * |b| and *)
(* Ok(false) otherwise, as its doc comment says.                           *)
C3_DocComment ==
    op = "is_close" => out = (IF Fle(Diff, Budget) THEN Ok(TRUE) ELSE Ok(FALSE))

(* C4: with a or b NaN, is_close fails with Err(DidNotConverge) under      *)
(* every policy.                                                           *)
C4_NaNFails ==
    (op = "is_close" /\ (IsNaN(args.a) \/ IsNaN(args.b))) =>
        out = Err(DidNotConverge)

C4_Witness ==
    /\ op = "is_close"
    /\ args = [a |-> NaN, b |-> Fin(1, 0), tol |-> Default]
    /\ out = Err(DidNotConverge)

(* C5: eps_abs and eps_rel return the tabulated thresholds of the presets  *)
(* and, for Custom, the eps_abs and the eps_rel field unchanged, whatever  *)
(* their value.                                                            *)
C5_Accessors ==
    /\ op = "eps_abs" =>
        /\ args.tol = Strict => out = [k |-> "fin", m |-> 1, e |-> -12]
        /\ args.tol = Default => out = [k |-> "fin", m |-> 1, e |-> -8]
        /\ args.tol = Loose => out = [k |-> "fin", m |-> 1, e |-> -6]
        /\ args.tol.kind = "Custom" => out = args.tol.eps_abs
    /\ op = "eps_rel" =>
        /\ args.tol = Strict => out = [k |-> "fin", m |-> 1, e |-> -10]
        /\ args.tol = Default => out = [k |-> "fin", m |-> 1, e |-> -6]
        /\ args.tol = Loose => out = [k |-> "fin", m |-> 1, e |-> -4]
        /\ args.tol.kind = "Custom" => out = args.tol.eps_rel

(* eps_abs of Custom { eps_abs: NaN, eps_rel: -1.0 } is the NaN. *)
C5_Witness ==
    /\ op = "eps_abs"
    /\ args.tol = Custom(NaN, Fin(-1, 0))
    /\ out = NaN

NonNegative(tol) == Fge(eps_abs(tol), Zero) /\ Fge(eps_rel(tol), Zero)

(* C6 as stated: is_close(x, x, p) returns Ok(true) for finite x and every *)
(* policy with eps_abs >= 0 and eps_rel >= 0.                              *)
C6_ReflexiveNonNegative ==
    ( /\ op = "is_close"
      /\ IsFinite(args.a)
      /\ args.a = args.b
      /\ NonNegative(args.tol) ) =>
        out = Ok(TRUE)

(* C6 amended: is_close(x, x, p) returns Ok(true) for finite x and every   *)
(* policy with eps_abs >= 0 and 0 <= eps_rel < +infinity.                  *)
C6_ReflexiveFiniteRel ==
    ( /\ op = "is_close"
      /\ IsFinite(args.a)
      /\ args.a = args.b
      /\ NonNegative(args.tol)
      /\ IsFinite(eps_rel(args.tol)) ) =>
        out = Ok(TRUE)

C6_Witness ==
    /\ op = "is_close"
    /\ args = [a |-> Zero, b |-> Zero, tol |-> Custom(PosInf, Zero)]
    /\ out = Ok(TRUE)

(* C7: is_close is not symmetric: is_close(0, 1, Custom{0, 1}) is Ok(true) *)
(* and is_close(1, 0, Custom{0, 1}) is Err(DidNotConverge); and the two    *)
(* orders differ only when |a| and |b| differ, the relative term being the *)
(* one place where a and b are not interchangeable.                        *)
C7_Asymmetric ==
    (op = "is_close" /\ prev # None /\ prev.how = "swapped") =>
        /\ prev.args = [a |-> Zero, b |-> Fin(1, 0),
                        tol |-> Custom(Zero, Fin(1, 0))] =>
              (prev.out = Ok(TRUE) /\ out = Err(DidNotConverge))
        /\ out # prev.out => Fabs(args.a) # Fabs(args.b)

C7_Witness ==
    /\ op = "is_close"
    /\ prev # None
    /\ prev.how = "swapped"
    /\ args.a = prev.args.b
    /\ args.b = prev.args.a
    /\ args.tol = prev.args.tol
    /\ prev.out = Ok(TRUE)
    /\ out = Err(DidNotConverge)

(* C8: Display renders InvalidInput(m) as "INVALID INPUT: " then m,        *)
(* DidNotConverge as "FAILED TO CONVERGE", DerivativeNotComputable as      *)
(* "DERIVATIVE NOT COMPUTABLE" and LibErr(m) as "NUMAL LIB ERROR: " then   *)
(* m, and no other variant with the same message renders to the same text. *)
HasMsg(e) == e.kind \in {"InvalidInput", "LibErr"}

C8_Display ==
    op = "fmt" =>
        /\ args.err.kind = "InvalidInput" =>
              /\ Len(out) = 15 + Len(args.err.msg)
              /\ SubSeq(out, 1, 15) = "INVALID INPUT: "
              /\ SubSeq(out, 16, Len(out)) = args.err.msg
        /\ args.err.kind = "DidNotConverge" => out = "FAILED TO CONVERGE"
        /\ args.err.kind = "DerivativeNotComputable" =>
              out = "DERIVATIVE NOT COMPUTABLE"
        /\ args.err.kind = "LibErr" =>
              /\ Len(out) = 17 + Len(args.err.msg)
              /\ SubSeq(out, 1, 17) = "NUMAL LIB ERROR: "
              /\ SubSeq(out, 18, Len(out)) = args.err.msg
        /\ \A e \in Errors :
              ( /\ e.kind # args.err.kind
                /\ (HasMsg(e) /\ HasMsg(args.err)) => e.msg = args.err.msg ) =>
                  Display(e) # out

C8_Witness ==
    /\ op = "fmt"
    /\ args.err = LibErr("step must be > 0")
    /\ out = "NUMAL LIB ERROR: step must be > 0"

(* C9: negating both values leaves the outcome unchanged:                  *)
(* is_close(-a, -b, p) = is_close(a, b, p).                                *)
C9_NegationInvariant ==
    (op = "is_close" /\ prev # None /\ prev.how = "negated") =>
        out = prev.out

C9_Witness ==
    /\ op = "is_close"
    /\ prev # None
    /\ prev.how = "negated"
    /\ prev.args = [a |-> Fin(-2, 0), b |-> Fin(-1, 0),
                    tol |-> Custom(Zero, Fin(1, 0))]
    /\ args.a = Fin(2, 0)
    /\ args.b = Fin(1, 0)
    /\ out = Ok(TRUE)

Looser(q, p) ==
    Fge(eps_abs(q), eps_abs(p)) /\ Fge(eps_rel(q), eps_rel(p))

(* C10 as stated: if is_close(a, b, p) is Ok(true) and q has               *)
(* eps_abs(q) >= eps_abs(p) and eps_rel(q) >= eps_rel(p), then             *)
(* is_close(a, b, q) is Ok(true).                                          *)
C10_Monotone ==
    ( /\ op = "is_close" /\ prev # None /\ prev.how = "retry"
      /\ prev.out = Ok(TRUE)
      /\ Looser(args.tol, prev.args.tol) ) =>
        out = Ok(TRUE)

(* C10 amended: the same for every q whose eps_rel is not +infinity; in    *)
(* particular from Strict to Default and from Default to Loose.            *)
C10_MonotoneFiniteRel ==
    ( /\ op = "is_close" /\ prev # None /\ prev.how = "retry"
      /\ prev.out = Ok(TRUE)
      /\ Looser(args.tol, prev.args.tol)
      /\ eps_rel(args.tol) # PosInf ) =>
        out = Ok(TRUE)

(* is_close(1e-8, 0.0, Default) succeeded and the retry with Loose does. *)
C10_Witness ==
    /\ op = "is_close"
    /\ prev # None
    /\ prev.how = "retry"
    /\ prev.args = [a |-> Fin(1, -8), b |-> Zero, tol |-> Default]
    /\ prev.out = Ok(TRUE)
    /\ args.tol = Loose
    /\ out = Ok(TRUE)

====
